---- MODULE Spec2Model ----
(***************************************************************************)
(* Model of the submission side of iou (src/src/sqe.rs): SubmissionQueue   *)
(* (next_sqe, submit, submit_and_wait) and SubmissionQueueEvent (the       *)
(* prep_* constructors, flag and user_data accessors, clear).              *)
(*                                                                         *)
(* Integers wider than TLC's are kept as little-endian tuples of 16-bit    *)
(* limbs: a u64/usize is four limbs, a u32 two, a u16 one (a plain number).*)
(* usize is taken to be 64 bits wide (x86_64 Linux).                       *)
(***************************************************************************)
EXTENDS Integers, Sequences, FiniteSets, TLC

VARIABLES
    ring,   \* sys::io_uring behind SubmissionQueue.ring: capacity and cursors
    sqes,   \* the ring's slot memory: one io_uring_sqe record per slot
    ev,     \* the slot the live SubmissionQueueEvent borrows, or NoEvent
    last,   \* the last call made on the API: operation, arguments, result
    acquired, \* number of events handed out since the last submit call
    live    \* the borrows in force: live SubmissionQueues, whether the ring
            \* handle is borrowed, live SubmissionQueueEvents

vars == <<ring, sqes, ev, last, acquired, live>>

----------------------------------------------------------------------------
(* Bounds *)

\* ring capacity (queue depth) of the ring behind Spec
Entries == 2
\* largest wait_for passed to submit_and_wait
MaxWait == 1

----------------------------------------------------------------------------
(* Fixed-width integers *)

W == 2^16

Z64 == <<0, 0, 0, 0>>
Z32 == <<0, 0>>

\* `x as u64` for x: usize, `x as u64` for x: *mut T (same width: all four limbs)
as_u64(x) == SubSeq(x, 1, 4)
\* `x as u32` for x: usize (truncating)
as_u32(x) == SubSeq(x, 1, 2)
\* a cast to u16 that saturates instead of truncating
as_u16_saturating(x) ==
    IF x[2] = 0 /\ x[3] = 0 /\ x[4] = 0 THEN x[1] ELSE W - 1
\* `x as u16` for x: usize (truncating)
as_u16(x) == x[1]
\* `ret as usize` for ret: c_int (sign-extending)
as_usize(ret) ==
    IF ret >= 0
    THEN <<ret % W, (ret \div W) % W, 0, 0>>
    ELSE <<ret % W, (ret \div W) % W, W - 1, W - 1>>

RECURSIVE BitOr(_, _, _)
\* a | b on n-bit values
BitOr(a, b, n) ==
    IF n = 0 THEN 0
    ELSE (IF a % 2 = 1 \/ b % 2 = 1 THEN 1 ELSE 0)
         + 2 * BitOr(a \div 2, b \div 2, n - 1)

RECURSIVE BitAnd(_, _, _)
\* a & b on n-bit values
BitAnd(a, b, n) ==
    IF n = 0 THEN 0
    ELSE (IF a % 2 = 1 /\ b % 2 = 1 THEN 1 ELSE 0)
         + 2 * BitAnd(a \div 2, b \div 2, n - 1)

----------------------------------------------------------------------------
(* Constants of sqe.rs *)

IORING_OP_NOP         == 0
IORING_OP_READV       == 1
IORING_OP_WRITEV      == 2
IORING_OP_FSYNC       == 3
IORING_OP_READ_FIXED  == 4
IORING_OP_WRITE_FIXED == 5

FIXED_FILE     == 1
IO_DRAIN       == 2
IO_LINK        == 4
FSYNC_DATASYNC == 1

\* SubmissionFlags::from_bits_unchecked: keeps every bit
from_bits_unchecked(b) == [bits |-> b]
\* SubmissionFlags::bits / FsyncFlags::bits
bits(f) == f.bits

----------------------------------------------------------------------------
(* SubmissionQueueEvent: operations on one slot record *)

\* mem::zeroed::<io_uring_sqe>()
zeroed ==
    [opcode |-> 0, flags |-> 0, fd |-> 0, off |-> Z64, addr |-> Z64,
     len |-> Z32, cmd_flags |-> 0, buf_index |-> 0, user_data |-> Z64]

user_data(sqe) == as_u64(sqe.user_data)

set_user_data(sqe, ud) == [sqe EXCEPT !.user_data = as_u64(ud)]

\* flags() built on from_bits_truncate: drops the bits the crate does not define
flags_truncate(sqe) ==
    [bits |-> BitAnd(sqe.flags, FIXED_FILE + IO_DRAIN + IO_LINK, 8)]

flags(sqe) == from_bits_unchecked(sqe.flags)

\* set_flags that adds the bits of f to the ones already set
set_flags_or(sqe, f) == [sqe EXCEPT !.flags = BitOr(@, bits(f), 8)]

set_flags(sqe, f) == [sqe EXCEPT !.flags = bits(f)]

\* prep_read_vectored that starts from a cleared record
prep_read_vectored_clears(sqe, fd, bufs, offset) ==
    [zeroed EXCEPT !.opcode = IORING_OP_READV,
                   !.fd = fd,
                   !.off = as_u64(offset),
                   !.addr = as_u64(bufs.ptr),
                   !.len = as_u32(bufs.len)]

\* bufs is the slice: [ptr |-> address of the list, len |-> number of entries]
prep_read_vectored(sqe, fd, bufs, offset) ==
    [sqe EXCEPT !.opcode = IORING_OP_READV,
                !.fd = fd,
                !.off = as_u64(offset),
                !.addr = as_u64(bufs.ptr),
                !.len = as_u32(bufs.len)]

\* buf is the slice: [ptr |-> address of the bytes, len |-> number of bytes]
prep_read_fixed(sqe, fd, buf, offset, buf_index) ==
    [sqe EXCEPT !.opcode = IORING_OP_READ_FIXED,
                !.fd = fd,
                !.off = as_u64(offset),
                !.addr = as_u64(buf.ptr),
                !.len = as_u32(buf.len),
                !.buf_index = as_u16(buf_index),
                !.flags = BitOr(@, FIXED_FILE, 8)]

prep_write_vectored(sqe, fd, bufs, offset) ==
    [sqe EXCEPT !.opcode = IORING_OP_WRITEV,
                !.fd = fd,
                !.off = as_u64(offset),
                !.addr = as_u64(bufs.ptr),
                !.len = as_u32(bufs.len)]

\* prep_write_fixed without its last line
prep_write_fixed_no_flag(sqe, fd, buf, offset, buf_index) ==
    [sqe EXCEPT !.opcode = IORING_OP_WRITE_FIXED,
                !.fd = fd,
                !.off = as_u64(offset),
                !.addr = as_u64(buf.ptr),
                !.len = as_u32(buf.len),
                !.buf_index = as_u16(buf_index)]

prep_write_fixed(sqe, fd, buf, offset, buf_index) ==
    [sqe EXCEPT !.opcode = IORING_OP_WRITE_FIXED,
                !.fd = fd,
                !.off = as_u64(offset),
                !.addr = as_u64(buf.ptr),
                !.len = as_u32(buf.len),
                !.buf_index = as_u16(buf_index),
                !.flags = BitOr(@, FIXED_FILE, 8)]

\* prep_fsync that does not reset len
prep_fsync_keeps_len(sqe, fd, fl) ==
    [sqe EXCEPT !.opcode = IORING_OP_FSYNC,
                !.fd = fd,
                !.off = Z64,
                !.addr = Z64,
                !.cmd_flags = bits(fl)]

prep_fsync(sqe, fd, fl) ==
    [sqe EXCEPT !.opcode = IORING_OP_FSYNC,
                !.fd = fd,
                !.off = Z64,
                !.addr = Z64,
                !.len = Z32,
                !.cmd_flags = bits(fl)]

\* prep_nop that does not reset len
prep_nop_keeps_len(sqe) ==
    [sqe EXCEPT !.opcode = IORING_OP_NOP,
                !.fd = 0,
                !.off = Z64,
                !.addr = Z64]

\* prep_nop that resets the whole record
prep_nop_zeroes(sqe) == zeroed

prep_nop(sqe) ==
    [sqe EXCEPT !.opcode = IORING_OP_NOP,
                !.fd = 0,
                !.off = Z64,
                !.addr = Z64,
                !.len = Z32]

\* clear that resets field by field and misses the two union fields
clear_fields(sqe) ==
    [sqe EXCEPT !.opcode = 0, !.flags = 0, !.fd = 0, !.off = Z64,
                !.addr = Z64, !.len = Z32, !.user_data = Z64]

clear(sqe) == zeroed

----------------------------------------------------------------------------
(* io::Result<usize> *)

Ok(n) == [tag |-> "Ok", count |-> n]
Err(e) == [tag |-> "Err", error |-> e]

\* io::Error::from_raw_os_error(code): the error whose raw_os_error() is code
from_raw_os_error(code) == [os |-> code]

\* submit without the check of the sign
submit_result_unchecked(ret) == Ok(as_usize(ret))

\* submit that hands a failure back as the count of its error number
submit_result_abs(ret) ==
    IF ret >= 0
    THEN Ok(as_usize(ret))
    ELSE Ok(as_usize(-ret))

\* submit that takes the return for a status and drops the count
submit_result_status(ret) ==
    IF ret >= 0
    THEN Ok(as_usize(0))
    ELSE Err(from_raw_os_error(ret))

\* submit that takes a return of zero for a failure
submit_result_positive(ret) ==
    IF ret > 0
    THEN Ok(as_usize(ret))
    ELSE Err(from_raw_os_error(ret))

\* the `if ret >= 0 { Ok(ret as _) } else { Err(..) }` of submit
submit_result(ret) ==
    IF ret >= 0
    THEN Ok(as_usize(ret))
    ELSE Err(from_raw_os_error(ret))

\* the same lines of submit_and_wait
submit_and_wait_result(ret) ==
    IF ret >= 0
    THEN Ok(as_usize(ret))
    ELSE Err(from_raw_os_error(ret))

----------------------------------------------------------------------------
(* The ring handle adapter (sys::io_uring_get_sqe, sys::io_uring_submit,   *)
(* sys::io_uring_submit_and_wait): the slot cursor and the flush calls.    *)

\* ptr::null_mut(): slots are addressed 1..entries
NULL == 0
\* no SubmissionQueueEvent is live
NoEvent == NULL

\* negative return codes of a failed flush: -EBUSY, -EINVAL
FlushErrors == {-16, -22}

\* the next free slot, or NULL when reserved and in-flight slots fill the ring;
\* handing out a slot advances the write cursor and reserves the slot
io_uring_get_sqe(r) ==
    IF r.pending + r.inflight >= r.entries
    THEN [sqe |-> NULL, ring |-> r]
    ELSE [sqe |-> r.sqe_tail,
          ring |-> [r EXCEPT !.sqe_tail = (@ % r.entries) + 1,
                             !.pending = @ + 1]]

\* the slots reserved since the last flush leave the reserved state
flushed(r) == [r EXCEPT !.inflight = @ + r.pending, !.pending = 0]

\* the possible outcomes of a flush: the count of the slots reserved since the
\* last flush, or, when there is something to flush, a negative error code
io_uring_submit(r) ==
    {[ret |-> r.pending, ring |-> flushed(r)]}
    \cup (IF r.pending > 0
          THEN {[ret |-> e, ring |-> flushed(r)] : e \in FlushErrors}
          ELSE {})

\* a flush that then waits for completions: the kernel completes some of the
\* slots in flight before the call returns
io_uring_submit_and_wait(r, wait_for) ==
    {[ret |-> o.ret, ring |-> [o.ring EXCEPT !.inflight = @ - c]] :
        o \in {x \in io_uring_submit(r) : x.ret >= 0},
        c \in 0..(r.pending + r.inflight)}
    \cup {o \in io_uring_submit(r) : o.ret < 0}

----------------------------------------------------------------------------
(* Inputs *)

\* the arguments of the calls under Spec
RingInputs ==
    [fds    |-> {3},
     offs   |-> {<<8, 0, 0, 0>>},
     bufs   |-> {[ptr |-> <<4096, 0, 0, 0>>, len |-> <<2, 0, 0, 0>>]},
     idxs   |-> {<<1, 0, 0, 0>>},
     fsyncs |-> {[bits |-> FSYNC_DATASYNC]},
     tags   |-> {<<42, 0, 0, 0>>},
     sflags |-> {[bits |-> IO_LINK]}]

\* the arguments of the calls under SpecSlot: lengths of 2 and 2^32 + 2,
\* buffer indices of 1 and 2^16 + 1, tags of 42 and 2^48, flags with a bit the
\* crate does not define
SlotInputs ==
    [fds    |-> {3, 7},
     offs   |-> {<<8, 0, 0, 0>>},
     bufs   |-> {[ptr |-> <<4096, 0, 0, 0>>, len |-> <<2, 0, 0, 0>>],
                 [ptr |-> <<4096, 0, 0, 0>>, len |-> <<2, 0, 1, 0>>]},
     idxs   |-> {<<1, 0, 0, 0>>, <<1, 1, 0, 0>>},
     fsyncs |-> {[bits |-> 0], [bits |-> FSYNC_DATASYNC]},
     tags   |-> {<<42, 0, 0, 0>>, <<0, 0, 0, 1>>},
     sflags |-> {[bits |-> IO_LINK], [bits |-> 128 + IO_DRAIN]}]

\* the arguments of the calls under SpecFlags: every 8-bit flags value
FlagInputs ==
    [fds    |-> {3},
     offs   |-> {<<8, 0, 0, 0>>},
     bufs   |-> {[ptr |-> <<4096, 0, 0, 0>>, len |-> <<2, 0, 0, 0>>]},
     idxs   |-> {<<1, 0, 0, 0>>},
     fsyncs |-> {[bits |-> FSYNC_DATASYNC]},
     tags   |-> {<<42, 0, 0, 0>>},
     sflags |-> {[bits |-> b] : b \in 0..255}]

----------------------------------------------------------------------------
(* Borrows.  The borrow checker admits a call only when the borrow its      *)
(* signature asks for is free; a value that carries a lifetime keeps the    *)
(* borrow in force for as long as it lives.                                 *)

\* the accessor of the ring handle that calls SubmissionQueue::new borrows the
\* handle exclusively: it cannot be called while the handle is borrowed
sq_borrow(l) == ~l.ring

\* a SubmissionQueue that does not carry the lifetime of the reference it was
\* built from
SubmissionQueue_new_unbound(l) == [l EXCEPT !.queues = @ + 1]

\* SubmissionQueue::new: the queue is SubmissionQueue<'ring>, so the borrow of
\* the handle it was built from lasts as long as the queue
SubmissionQueue_new(l) == [l EXCEPT !.queues = @ + 1, !.ring = TRUE]

\* next_sqe(&'a mut self) -> Option<SubmissionQueueEvent<'a>>: needs the queue
\* not borrowed by a live event
next_sqe_borrow(l) == l.queues > 0 /\ l.events = 0

\* submit taking &self
submit_borrow_shared(l) == l.queues > 0

\* submit(&mut self): needs the queue not borrowed by a live event
submit_borrow(l) == l.queues > 0 /\ l.events = 0

\* submit_and_wait(&mut self, ..): needs the queue not borrowed by a live event
submit_and_wait_borrow(l) == l.queues > 0 /\ l.events = 0

----------------------------------------------------------------------------
(* Initial state: a ring of n slots, freshly mapped, nothing reserved, and *)
(* one SubmissionQueue built over it                                        *)

InitRing(n) ==
    /\ ring = [entries |-> n, sqe_tail |-> 1, pending |-> 0, inflight |-> 0]
    /\ sqes = [i \in 1..n |-> zeroed]
    /\ ev = NoEvent
    /\ last = [op |-> "new"]
    /\ acquired = 0
    /\ live = SubmissionQueue_new([queues |-> 0, ring |-> FALSE, events |-> 0])

Init == InitRing(Entries)

----------------------------------------------------------------------------
(* SubmissionQueue *)

\* Option<SubmissionQueueEvent>
Some(x) == <<x>>
None == <<>>

\* SubmissionQueueEvent::new
SubmissionQueueEvent_new(sqe) == [sqe |-> sqe]

\* next_sqe without the null check
next_sqe_unchecked(sqe) == Some(SubmissionQueueEvent_new(sqe))

\* next_sqe that wraps the first slot of the ring, not the slot it was handed
next_sqe_first(sqe) ==
    IF sqe # NULL
    THEN Some(SubmissionQueueEvent_new(1))
    ELSE None

\* the null check of next_sqe on the pointer io_uring_get_sqe returns
next_sqe(sqe) ==
    IF sqe # NULL
    THEN Some(SubmissionQueueEvent_new(sqe))
    ELSE None

\* the ring handle hands out a SubmissionQueue
NewQueue ==
    /\ sq_borrow(live)
    /\ live' = SubmissionQueue_new(live)
    /\ last' = [op |-> "new"]
    /\ UNCHANGED <<ring, sqes, ev, acquired>>

\* the SubmissionQueue goes out of scope, which it cannot while an event
\* borrows it
DropQueue ==
    /\ live.queues > 0
    /\ live.events = 0
    /\ live' = [live EXCEPT !.queues = @ - 1, !.ring = FALSE]
    /\ last' = [op |-> "drop_queue"]
    /\ UNCHANGED <<ring, sqes, ev, acquired>>

\* next_sqe borrows the queue mutably for as long as the event lives, so it
\* cannot be called while an event is live
NextSqe ==
    /\ next_sqe_borrow(live)
    /\ LET g == io_uring_get_sqe(ring)
           e == next_sqe(g.sqe)
       IN
        /\ ring' = g.ring
        /\ ev' = IF e # None THEN e[1].sqe ELSE NoEvent
        /\ acquired' = IF e # None THEN acquired + 1 ELSE acquired
        /\ live' = IF e # None THEN [live EXCEPT !.events = @ + 1] ELSE live
        /\ last' = [op |-> "next_sqe", ret |-> e, sqe |-> g.sqe,
                    free |-> ring.entries - ring.pending - ring.inflight]
    /\ UNCHANGED sqes

\* the event goes out of scope
DropEvent ==
    /\ ev # NoEvent
    /\ ev' = NoEvent
    /\ live' = [live EXCEPT !.events = @ - 1]
    /\ last' = [op |-> "drop"]
    /\ UNCHANGED <<ring, sqes, acquired>>

Submit ==
    /\ submit_borrow(live)
    /\ \E o \in io_uring_submit(ring) :
        /\ ring' = o.ring
        /\ last' = [op |-> "submit", ret |-> o.ret, batch |-> acquired,
                    after_empty |-> (last.op = "next_sqe" /\ last.ret = None),
                    moved |-> o.ring.inflight - ring.inflight,
                    val |-> submit_result(o.ret)]
    /\ acquired' = 0
    /\ UNCHANGED <<sqes, ev, live>>

SubmitAndWait ==
    /\ submit_and_wait_borrow(live)
    /\ \E wait_for \in 0..MaxWait :
       \E o \in io_uring_submit_and_wait(ring, wait_for) :
        /\ ring' = o.ring
        /\ last' = [op |-> "submit_and_wait", wait_for |-> wait_for, ret |-> o.ret, batch |-> acquired,
                    val |-> submit_and_wait_result(o.ret)]
    /\ acquired' = 0
    /\ UNCHANGED <<sqes, ev, live>>

\* the kernel completes a slot in flight, which frees it
KernelComplete ==
    /\ ring.inflight > 0
    /\ ring' = [ring EXCEPT !.inflight = @ - 1]
    /\ UNCHANGED <<sqes, ev, last, acquired, live>>

----------------------------------------------------------------------------
(* SubmissionQueueEvent: the calls on the live event *)

UserData ==
    /\ ev # NoEvent
    /\ last' = [op |-> "user_data", ret |-> user_data(sqes[ev])]
    /\ UNCHANGED <<ring, sqes, ev, acquired, live>>

SetUserData(I) ==
    /\ ev # NoEvent
    /\ \E ud \in I.tags :
        /\ sqes' = [sqes EXCEPT ![ev] = set_user_data(@, ud)]
        /\ last' = [op |-> "set_user_data", ud |-> ud]
    /\ UNCHANGED <<ring, ev, acquired, live>>

Flags ==
    /\ ev # NoEvent
    /\ last' = [op |-> "flags", ret |-> flags(sqes[ev])]
    /\ UNCHANGED <<ring, sqes, ev, acquired, live>>

SetFlags(I) ==
    /\ ev # NoEvent
    /\ \E f \in I.sflags :
        /\ sqes' = [sqes EXCEPT ![ev] = set_flags(@, f)]
        /\ last' = [op |-> "set_flags", f |-> f]
    /\ UNCHANGED <<ring, ev, acquired, live>>

PrepReadVectored(I) ==
    /\ ev # NoEvent
    /\ \E fd \in I.fds, bufs \in I.bufs, offset \in I.offs :
        /\ sqes' = [sqes EXCEPT ![ev] = prep_read_vectored(@, fd, bufs, offset)]
        /\ last' = [op |-> "prep_read_vectored", fd |-> fd, buf |-> bufs,
                    offset |-> offset,
                    fixed |-> sqes[ev].flags % 2]
    /\ UNCHANGED <<ring, ev, acquired, live>>

PrepReadFixed(I) ==
    /\ ev # NoEvent
    /\ \E fd \in I.fds, buf \in I.bufs, offset \in I.offs, buf_index \in I.idxs :
        /\ sqes' = [sqes EXCEPT ![ev] = prep_read_fixed(@, fd, buf, offset, buf_index)]
        /\ last' = [op |-> "prep_read_fixed", fd |-> fd, buf |-> buf,
                    offset |-> offset, buf_index |-> buf_index,
                    fixed |-> sqes[ev].flags % 2]
    /\ UNCHANGED <<ring, ev, acquired, live>>

PrepWriteVectored(I) ==
    /\ ev # NoEvent
    /\ \E fd \in I.fds, bufs \in I.bufs, offset \in I.offs :
        /\ sqes' = [sqes EXCEPT ![ev] = prep_write_vectored(@, fd, bufs, offset)]
        /\ last' = [op |-> "prep_write_vectored", fd |-> fd, buf |-> bufs,
                    offset |-> offset,
                    fixed |-> sqes[ev].flags % 2]
    /\ UNCHANGED <<ring, ev, acquired, live>>

PrepWriteFixed(I) ==
    /\ ev # NoEvent
    /\ \E fd \in I.fds, buf \in I.bufs, offset \in I.offs, buf_index \in I.idxs :
        /\ sqes' = [sqes EXCEPT ![ev] = prep_write_fixed(@, fd, buf, offset, buf_index)]
        /\ last' = [op |-> "prep_write_fixed", fd |-> fd, buf |-> buf,
                    offset |-> offset, buf_index |-> buf_index,
                    fixed |-> sqes[ev].flags % 2]
    /\ UNCHANGED <<ring, ev, acquired, live>>

PrepFsync(I) ==
    /\ ev # NoEvent
    /\ \E fd \in I.fds, fl \in I.fsyncs :
        /\ sqes' = [sqes EXCEPT ![ev] = prep_fsync(@, fd, fl)]
        /\ last' = [op |-> "prep_fsync", fd |-> fd, fl |-> fl]
    /\ UNCHANGED <<ring, ev, acquired, live>>

PrepNop ==
    /\ ev # NoEvent
    /\ sqes' = [sqes EXCEPT ![ev] = prep_nop(@)]
    /\ last' = [op |-> "prep_nop", was |-> sqes[ev].opcode]
    /\ UNCHANGED <<ring, ev, acquired, live>>

Clear ==
    /\ ev # NoEvent
    /\ sqes' = [sqes EXCEPT ![ev] = clear(@)]
    /\ last' = [op |-> "clear", was |-> sqes[ev].opcode]
    /\ UNCHANGED <<ring, ev, acquired, live>>

Raw ==
    /\ ev # NoEvent
    /\ last' = [op |-> "raw", ret |-> sqes[ev]]
    /\ UNCHANGED <<ring, sqes, ev, acquired, live>>

----------------------------------------------------------------------------

\* the submission protocol on a ring of Entries slots, with the event calls of
\* the no-op and fsync scenarios
Next ==
    \/ NewQueue
    \/ DropQueue
    \/ NextSqe
    \/ DropEvent
    \/ Submit
    \/ SubmitAndWait
    \/ KernelComplete
    \/ UserData
    \/ SetUserData(RingInputs)
    \/ PrepFsync(RingInputs)
    \/ PrepNop
    \/ Clear

Spec == Init /\ [][Next]_vars

\* every call of an event, on a ring of one slot
InitSlot == InitRing(1)

NextSlot ==
    \/ NewQueue
    \/ DropQueue
    \/ NextSqe
    \/ DropEvent
    \/ Submit
    \/ KernelComplete
    \/ UserData
    \/ SetUserData(SlotInputs)
    \/ Flags
    \/ SetFlags(SlotInputs)
    \/ PrepReadVectored(SlotInputs)
    \/ PrepReadFixed(SlotInputs)
    \/ PrepWriteVectored(SlotInputs)
    \/ PrepWriteFixed(SlotInputs)
    \/ PrepFsync(SlotInputs)
    \/ PrepNop
    \/ Clear
    \/ Raw

SpecSlot == InitSlot /\ [][NextSlot]_vars

\* the calls that read or write the generic flags, on a ring of one slot
NextFlags ==
    \/ NewQueue
    \/ DropQueue
    \/ NextSqe
    \/ DropEvent
    \/ Submit
    \/ KernelComplete
    \/ Flags
    \/ SetFlags(FlagInputs)
    \/ PrepReadVectored(FlagInputs)
    \/ PrepReadFixed(FlagInputs)
    \/ PrepWriteVectored(FlagInputs)
    \/ PrepWriteFixed(FlagInputs)
    \/ Clear

SpecFlags == InitSlot /\ [][NextFlags]_vars

----------------------------------------------------------------------------
(* Properties *)

\* the usize whose value is the number n, 0 <= n < 2^31
U64Of(n) == <<n % W, (n \div W) % W, 0, 0>>

IsSubmit == last.op \in {"submit", "submit_and_wait"}

\* C1: submit and submit_and_wait turn a return r >= 0 of the flush call into the
\* success value with count exactly r, and a return r < 0 into an error: a
\* negative count is never a success and a failure is never dropped.
C1_ResultFollowsSign ==
    IsSubmit =>
        /\ last.ret >= 0 => (last.val.tag = "Ok" /\ last.val.count = U64Of(last.ret))
        /\ last.ret < 0 => last.val.tag = "Err"

\* C1 witness: a flush that failed inside submit_and_wait came back as an error
C1_Witness ==
    /\ last.op = "submit_and_wait"
    /\ last.ret < 0
    /\ last.val.tag = "Err"

\* C2 (as claimed): a flush failing with -e makes submit / submit_and_wait fail
\* with the I/O error of OS error e, and distinct codes give distinct errors.
C2_ErrorIsErrno ==
    /\ (IsSubmit /\ last.ret < 0) =>
            (last.val.tag = "Err" /\ last.val.error.os = 0 - last.ret)
    /\ \A a, b \in FlushErrors :
            a # b => from_raw_os_error(a) # from_raw_os_error(b)

\* C3: next_sqe returns the empty result when the ring has no free slot, also
\* when no slot was ever prepared, and returns an event exactly when the ring
\* adapter hands back a non-null slot (the event then borrows that slot).
C3_NextSqeOption ==
    last.op = "next_sqe" =>
        /\ last.free = 0 => last.ret = None
        /\ last.sqe = NULL <=> last.ret = None
        /\ last.sqe # NULL => (Len(last.ret) = 1 /\ last.ret[1].sqe = last.sqe
                                /\ ev = last.sqe)
        /\ last.ret = None => ev = NoEvent

\* C3 witness: the ring is full of reserved slots, none of them ever prepared,
\* and next_sqe returned the empty result
C3_Witness ==
    /\ last.op = "next_sqe"
    /\ last.free = 0
    /\ last.ret = None
    /\ \A i \in DOMAIN sqes : sqes[i] = zeroed

AllZero(r) ==
    /\ r.opcode = 0
    /\ r.flags = 0
    /\ r.fd = 0
    /\ r.off = <<0, 0, 0, 0>>
    /\ r.addr = <<0, 0, 0, 0>>
    /\ r.len = <<0, 0>>
    /\ r.cmd_flags = 0
    /\ r.buf_index = 0
    /\ r.user_data = <<0, 0, 0, 0>>

\* C4: after clear() every field of the slot's record is zero, whatever the
\* slot held before.
C4_ClearZeroes == last.op = "clear" => AllZero(sqes[ev])

\* C4 witness: clear() ran on a slot that held a fixed-buffer write
C4_Witness ==
    /\ last.op = "clear"
    /\ last.was = IORING_OP_WRITE_FIXED
    /\ AllZero(sqes[ev])

\* C5: after prep_nop() the record has opcode 0 and descriptor, offset, address
\* and length all zero, whatever the slot held before.
C5_NopFields ==
    last.op = "prep_nop" =>
        /\ sqes[ev].opcode = 0
        /\ sqes[ev].fd = 0
        /\ sqes[ev].off = <<0, 0, 0, 0>>
        /\ sqes[ev].addr = <<0, 0, 0, 0>>
        /\ sqes[ev].len = <<0, 0>>

\* C5 witness: prep_nop() ran on a slot that held a fixed-buffer read
C5_Witness ==
    /\ last.op = "prep_nop"
    /\ last.was = IORING_OP_READ_FIXED
    /\ sqes[ev].opcode = 0

\* C6: flags() right after set_flags(f) returns exactly f, for every 8-bit f.
C6_FlagsRoundTrip ==
    [][(last.op = "set_flags" /\ last'.op = "flags") => last'.ret = last.f]_vars

\* C6 witness: flags() returned a value whose bits are all outside the three
\* the crate defines
C6_Witness ==
    /\ last.op = "flags"
    /\ last.ret.bits = 248

IsFixedPrep == last.op \in {"prep_read_fixed", "prep_write_fixed"}
IsVectoredPrep == last.op \in {"prep_read_vectored", "prep_write_vectored"}

\* C7: after prep_read_fixed or prep_write_fixed bit 0 of the generic flags is
\* set; after prep_read_vectored or prep_write_vectored bit 0 is what it was
\* before the call.
C7_FixedFileBit ==
    /\ IsFixedPrep => sqes[ev].flags % 2 = 1
    /\ IsVectoredPrep => sqes[ev].flags % 2 = last.fixed

\* C7 witness: prep_write_fixed set the bit on a slot whose flags had it clear
\* and the other two defined bits set
C7_Witness ==
    /\ last.op = "prep_write_fixed"
    /\ last.fixed = 0
    /\ sqes[ev].flags = FIXED_FILE + IO_DRAIN + IO_LINK

\* C8: set_user_data(t) right after prep_fsync(fd, s) leaves opcode 3, the
\* descriptor fd, offset, address and length 0, the sync flags the bits of s and
\* the tag t; dropping the event and submitting do not change the record.
C8_FsyncRecord ==
    /\ [][(last.op = "prep_fsync" /\ last'.op = "set_user_data") =>
            /\ sqes'[ev].opcode = 3
            /\ sqes'[ev].fd = last.fd
            /\ sqes'[ev].off = <<0, 0, 0, 0>>
            /\ sqes'[ev].addr = <<0, 0, 0, 0>>
            /\ sqes'[ev].len = <<0, 0>>
            /\ sqes'[ev].cmd_flags = last.fl.bits
            /\ sqes'[ev].user_data = last'.ud]_vars
    /\ [][last'.op \in {"drop", "submit"} => sqes' = sqes]_vars

\* C8 witness: the scenario of the specification: prep_fsync(3, data-only), tag
\* 42, submitted
C8_Witness ==
    /\ last.op = "submit"
    /\ last.val = Ok(<<1, 0, 0, 0>>)
    /\ sqes[1] = [opcode |-> 3, flags |-> 0, fd |-> 3, off |-> <<0, 0, 0, 0>>,
                  addr |-> <<0, 0, 0, 0>>, len |-> <<0, 0>>, cmd_flags |-> 1,
                  buf_index |-> 0, user_data |-> <<42, 0, 0, 0>>]

\* C9: a successful submit returns a count c with 0 <= c <= the number of slots
\* acquired since the previous submit, and a failed flush is the error value,
\* never a count.
C9_CountBounded ==
    last.op = "submit" =>
        /\ last.val.tag = "Ok" =>
                \E c \in 0..last.batch : last.val.count = U64Of(c)
        /\ last.ret < 0 => last.val.tag = "Err"

\* C9 witness: every slot of the ring was acquired, next_sqe then returned the
\* empty result, and the submit that followed succeeded
C9_Witness ==
    /\ last.op = "submit"
    /\ last.after_empty
    /\ last.batch = Entries
    /\ last.val = Ok(U64Of(Entries))

\* C10: submit with no slot acquired since the last submit returns the success
\* value with count 0.
C10_EmptyBatch ==
    (last.op = "submit" /\ last.batch = 0) => last.val = Ok(<<0, 0, 0, 0>>)

\* C10 witness: an empty submit while slots of an earlier batch are in flight
C10_Witness ==
    /\ last.op = "submit"
    /\ last.batch = 0
    /\ ring.inflight > 0
    /\ last.val.tag = "Ok"

\* C11: at most one SubmissionQueue is live over the ring handle, an event is
\* live only while its queue is, and while a queue lives the handle stays
\* borrowed, so that no second queue can be created.
C11_OneQueue ==
    /\ live.queues <= 1
    /\ live.events > 0 => live.queues = 1
    /\ live.queues > 0 => ~sq_borrow(live)

\* C11 witness: a queue was created over a ring that already has slots in
\* flight, after the queue that submitted them was dropped
C11_Witness ==
    /\ last.op = "new"
    /\ live.queues = 1
    /\ ring.inflight > 0

\* C12 (as claimed): after prep_nop() the opcode is no-op and every other field
\* of the record is zero, flags, opcode-specific flags, buffer index and tag
\* included.
C12_NopZeroesAll == last.op = "prep_nop" => AllZero(sqes[ev])

\* C12 (amended): prep_nop() sets opcode to no-op and descriptor, offset,
\* address and length to zero; the generic flags, the opcode-specific flags,
\* the buffer index and the tag keep the values the slot held before the call.
C12_NopKeepsRest ==
    [][last'.op = "prep_nop" =>
        /\ sqes'[ev'].opcode = IORING_OP_NOP
        /\ sqes'[ev'].fd = 0
        /\ sqes'[ev'].off = <<0, 0, 0, 0>>
        /\ sqes'[ev'].addr = <<0, 0, 0, 0>>
        /\ sqes'[ev'].len = <<0, 0>>
        /\ sqes'[ev'].flags = sqes[ev].flags
        /\ sqes'[ev'].cmd_flags = sqes[ev].cmd_flags
        /\ sqes'[ev'].buf_index = sqes[ev].buf_index
        /\ sqes'[ev'].user_data = sqes[ev].user_data]_vars

\* C12 witness: prep_nop() ran on a slot that held a fixed-buffer read with a
\* tag, and the fixed-file flag, the buffer index and the tag are still there
C12_Witness ==
    /\ last.op = "prep_nop"
    /\ last.was = IORING_OP_READ_FIXED
    /\ sqes[ev].flags % 2 = 1
    /\ sqes[ev].buf_index = 1
    /\ sqes[ev].user_data = <<42, 0, 0, 0>>

\* C13: after a successful submit no slot is left reserved and unsubmitted, and
\* the count returned is the number of slots the call moved to the kernel.
C13_SubmitFlushesAll ==
    (last.op = "submit" /\ last.val.tag = "Ok") =>
        /\ ring.pending = 0
        /\ last.val.count = U64Of(last.moved)

\* C13 witness: a successful submit of a batch that filled the ring
C13_Witness ==
    /\ last.op = "submit"
    /\ last.val.tag = "Ok"
    /\ last.moved = Entries
    /\ ring.pending = 0

Fields ==
    {"opcode", "flags", "fd", "off", "addr", "len", "cmd_flags", "buf_index",
     "user_data"}

PrepOps ==
    {"prep_nop", "prep_read_vectored", "prep_write_vectored", "prep_fsync",
     "prep_read_fixed", "prep_write_fixed"}

\* the field set of each prep_* call
Written(op) ==
    {"opcode", "fd", "off", "addr", "len"}
    \cup (IF op = "prep_fsync" THEN {"cmd_flags"} ELSE {})
    \cup (IF op \in {"prep_read_fixed", "prep_write_fixed"}
          THEN {"buf_index", "flags"} ELSE {})

\* C14: a prep_* call leaves every field outside its own field set as it was
\* (of the generic flags a fixed prep touches bit 0 only), so what an earlier
\* prep_* wrote there is still in the slot; no call fails.
C14_PrepFrame ==
    [][last'.op \in PrepOps =>
        /\ \A f \in Fields \ Written(last'.op) : sqes'[ev'][f] = sqes[ev][f]
        /\ sqes'[ev'].flags \div 2 = sqes[ev].flags \div 2]_vars

\* C14 witness: prep_read_vectored ran on a slot that still holds the sync
\* flags of an earlier prep_fsync
C14_Witness ==
    /\ last.op = "prep_read_vectored"
    /\ sqes[ev].opcode = IORING_OP_READV
    /\ sqes[ev].cmd_flags = FSYNC_DATASYNC

IsReadWrite ==
    last.op \in {"prep_read_vectored", "prep_write_vectored",
                 "prep_read_fixed", "prep_write_fixed"}

\* C15 (as claimed): each prep_* writes its opcode constant (no-op 0, vectored
\* read 1, vectored write 2, fsync 3, fixed read 4, fixed write 5), and after
\* the four read/write calls the record holds the descriptor, the offset, the
\* address of the buffer (or list) and, as length, the byte length of the
\* buffer (fixed) or the number of entries of the list (vectored).
C15_PrepFields ==
    /\ last.op = "prep_nop" => sqes[ev].opcode = 0
    /\ last.op = "prep_read_vectored" => sqes[ev].opcode = 1
    /\ last.op = "prep_write_vectored" => sqes[ev].opcode = 2
    /\ last.op = "prep_fsync" => (sqes[ev].opcode = 3 /\ sqes[ev].fd = last.fd)
    /\ last.op = "prep_read_fixed" => sqes[ev].opcode = 4
    /\ last.op = "prep_write_fixed" => sqes[ev].opcode = 5
    /\ IsReadWrite =>
        /\ sqes[ev].fd = last.fd
        /\ sqes[ev].off = last.offset
        /\ sqes[ev].addr = last.buf.ptr
        /\ <<sqes[ev].len[1], sqes[ev].len[2], 0, 0>> = last.buf.len

\* the slots reserved and not yet flushed: the r.pending slots before the cursor
Reserved(r) ==
    {((r.sqe_tail - 1 - k + r.entries) % r.entries) + 1 : k \in 1..r.pending}

\* C16: a successful next_sqe returns the slot at the write cursor and advances
\* the cursor by one position in ring order, and the slot it returns is not one
\* that is reserved and not yet submitted.
C16_Fifo ==
    [][(last'.op = "next_sqe" /\ last'.ret # None
            /\ live'.events = live.events + 1) =>
        /\ ev' = ring.sqe_tail
        /\ ring'.sqe_tail = (ring.sqe_tail % ring.entries) + 1
        /\ ev' \notin Reserved(ring)
        /\ Reserved(ring') = Reserved(ring) \cup {ev'}]_vars

\* C16 witness: the cursor wrapped: the first slot is handed out again while
\* a slot handed out after it is still in flight
C16_Witness ==
    /\ last.op = "next_sqe"
    /\ last.ret # None
    /\ ev = 1
    /\ ring.sqe_tail = (1 % ring.entries) + 1
    /\ ring.pending = 1
    /\ ring.inflight > 0

\* C17: set_flags(f) leaves the generic flags equal to the bits of f, whatever
\* they were; prep_read_fixed and prep_write_fixed set bit 0 and keep the other
\* seven bits; so after a fixed prep followed by set_flags(f) bit 0 is set only
\* if f has it, and dropping the event and submitting keep the byte as it is.
C17_SetFlagsReplaces ==
    /\ [][last'.op = "set_flags" => sqes'[ev'].flags = last'.f.bits]_vars
    /\ [][last'.op \in {"prep_read_fixed", "prep_write_fixed"} =>
            /\ sqes'[ev'].flags % 2 = 1
            /\ sqes'[ev'].flags \div 2 = sqes[ev].flags \div 2]_vars
    /\ [][(IsFixedPrep /\ last'.op = "set_flags") =>
            (sqes'[ev'].flags % 2 = 1 <=> last'.f.bits % 2 = 1)]_vars
    /\ [][last'.op \in {"drop", "submit"} => sqes' = sqes]_vars

\* C17 witness: set_flags(IO_LINK) on a slot prepared as a fixed read: the
\* fixed-file bit the prep had set is gone
C17_Witness ==
    /\ last.op = "set_flags"
    /\ last.f.bits = IO_LINK
    /\ sqes[ev].opcode = IORING_OP_READ_FIXED
    /\ sqes[ev].flags = IO_LINK

\* C18: at most one event of the queue is live at any time, an event is live
\* exactly while a handle on a slot exists, and next_sqe, submit and
\* submit_and_wait are only ever called while no event is live.
C18_ExclusiveEvent ==
    /\ [](live.events <= 1)
    /\ []((live.events = 1) <=> (ev # NoEvent))
    /\ [][(last' # last /\ last'.op \in {"next_sqe", "submit", "submit_and_wait"}) =>
            (live.events = 0 /\ ev = NoEvent)]_vars

\* C18 witness: two slots were acquired one after the other, each event
\* dropped before the next call, and submit flushed both with no event live
C18_Witness ==
    /\ last.op = "submit"
    /\ last.batch = 2
    /\ last.ret = 2
    /\ live.events = 0
    /\ ev = NoEvent

\* C19: after prep_read_fixed / prep_write_fixed the stored buffer index is
\* buf_index mod 2^16 and the stored length is the buffer length mod 2^32; after
\* the vectored preps the stored length is the list length mod 2^32; the stored
\* value equals the supplied one exactly when the supplied one fits the field.
C19_Truncation ==
    /\ IsFixedPrep =>
        /\ sqes[ev].buf_index = last.buf_index[1]
        /\ (<<sqes[ev].buf_index, 0, 0, 0>> = last.buf_index) <=>
            (last.buf_index[2] = 0 /\ last.buf_index[3] = 0 /\ last.buf_index[4] = 0)
    /\ IsReadWrite =>
        /\ sqes[ev].len = <<last.buf.len[1], last.buf.len[2]>>
        /\ (<<sqes[ev].len[1], sqes[ev].len[2], 0, 0>> = last.buf.len) <=>
            (last.buf.len[3] = 0 /\ last.buf.len[4] = 0)

\* C19 witness: prep_read_fixed with buffer index 2^16 + 1 and a buffer of
\* 2^32 + 2 bytes stored index 1 and length 2
C19_Witness ==
    /\ last.op = "prep_read_fixed"
    /\ last.buf_index = <<1, 1, 0, 0>>
    /\ last.buf.len = <<2, 0, 1, 0>>
    /\ sqes[ev].buf_index = 1
    /\ sqes[ev].len = <<2, 0>>

====
